---- MODULE Spec2Model ----
(***************************************************************************)
(* go-source-server: the Path Spec Resolver (resolveImportPath and its     *)
(* caller handleSourceGo / SourceSpec.writeContent) and the File Locator   *)
(* (the directory walk inside the older writeSourceGo of main.go).         *)
(*                                                                         *)
(* Go strings are modelled as sequences of one-character strings, so that  *)
(* strings.Split, strings.Index, strings.LastIndex, slicing and            *)
(* strings.HasSuffix are computed character by character as Go does.       *)
(***************************************************************************)
EXTENDS Integers, Sequences, FiniteSets, TLC

VARIABLES
    pc,          \* position of the request handler of the resolver program
    function,    \* query parameter "function" (the symbol)
    revision,    \* query parameter "revision" after defaulting
    path,        \* query parameter "path" (the raw path)
    spec,        \* outcome of resolveImportPath
    out,         \* what writeContent fetches
    lpc,         \* position inside writeSourceGo (file locator program)
    repo,        \* writeSourceGo argument repo
    rev,         \* writeSourceGo argument revision
    sourcePath,  \* writeSourceGo argument sourcePath (the recorded path)
    files,       \* full paths of the regular files below goModInfo.Dir
    visited,     \* files the WalkDir callback has been called for
    foundFile,   \* local foundFile of writeSourceGo
    ctxDone,     \* the request context has been cancelled
    result       \* outcome of writeSourceGo

rvars == <<pc, function, revision, path, spec, out>>
lvars == <<lpc, repo, rev, sourcePath, files, visited, foundFile, ctxDone, result>>
vars == <<pc, function, revision, path, spec, out,
          lpc, repo, rev, sourcePath, files, visited, foundFile, ctxDone, result>>

(***************************************************************************)
(* Bounds of the model.                                                    *)
(***************************************************************************)
MaxPathSegs == 3
MaxFuncParts == 4
MaxFiles == 3

(***************************************************************************)
(* Go string primitives.                                                   *)
(***************************************************************************)
Slash == <<"/">>
At == <<"@">>
Dot == <<".">>
Latest == <<"l", "a", "t", "e", "s", "t">>

SetMin(S) == CHOOSE x \in S : \A y \in S : x <= y
SetMax(S) == CHOOSE x \in S : \A y \in S : x >= y

\* Go s[lo:hi] with 0-based lo, exclusive hi
Slice(s, lo, hi) == SubSeq(s, lo + 1, hi)

\* Go s[lo:]
SliceFrom(s, lo) == SubSeq(s, lo + 1, Len(s))

HasPrefix(s, p) == Len(p) <= Len(s) /\ SubSeq(s, 1, Len(p)) = p

HasSuffix(s, p) == Len(p) <= Len(s) /\ SubSeq(s, Len(s) - Len(p) + 1, Len(s)) = p

Occurrences(s, sub) ==
    {i \in 0..(Len(s) - Len(sub)) : Slice(s, i, i + Len(sub)) = sub}

\* strings.Index: 0-based position of the first occurrence, -1 if none
Index(s, sub) ==
    IF Occurrences(s, sub) = {} THEN -1 ELSE SetMin(Occurrences(s, sub))

\* strings.LastIndex: 0-based position of the last occurrence, -1 if none
LastIndex(s, sub) ==
    IF Occurrences(s, sub) = {} THEN -1 ELSE SetMax(Occurrences(s, sub))

Contains(s, sub) == Index(s, sub) >= 0

RECURSIVE Split(_, _)
\* strings.Split for a non-empty separator
Split(s, sep) ==
    LET i == Index(s, sep)
    IN  IF i < 0
        THEN <<s>>
        ELSE <<Slice(s, 0, i)>> \o Split(SliceFrom(s, i + Len(sep)), sep)

RECURSIVE Join(_, _)
\* strings.Join
Join(parts, sep) ==
    IF Len(parts) = 0 THEN <<>>
    ELSE IF Len(parts) = 1 THEN parts[1]
    ELSE parts[1] \o sep \o Join(Tail(parts), sep)

(***************************************************************************)
(* resolveImportPath                                                       *)
(***************************************************************************)
SourceSpec(r, p, v) ==
    [status |-> "ok", Repo |-> r, RelativePath |-> p, Revision |-> v]

ResolveError ==
    [status |-> "error", Repo |-> <<>>, RelativePath |-> <<>>, Revision |-> <<>>]

Panic ==
    [status |-> "panic", Repo |-> <<>>, RelativePath |-> <<>>, Revision |-> <<>>]

NoSpec ==
    [status |-> "none", Repo |-> <<>>, RelativePath |-> <<>>, Revision |-> <<>>]

\* position of the version specifier inside one path part
AtPosFirst(part) == Index(part, At)
AtPos(part) == LastIndex(part, At)

\* "if we got a relative file path we have all information now"
IsRelativeAlways(p) == TRUE
IsRelative(p) == ~HasPrefix(p, Slash)

\* the function parts after the function name is stripped from the last one
StripFunctionName(function_) ==
    LET fp == Split(function_, Slash)
        last == fp[Len(fp)]
        posDot == Index(last, Dot)
    IN  IF posDot >= 0
        THEN [fp EXCEPT ![Len(fp)] = Slice(last, 0, posDot)]
        ELSE fp

\* the part of resolveImportPath after the version specifier scan:
\* pathParts, RelativePath and Revision are as the scan left them
ResolveFromFunction(function_, path_, pathParts, relPath0, revision0) ==
    IF function_ = <<>> THEN ResolveError
    ELSE
    LET functionParts == StripFunctionName(function_)
        pos == LastIndex(path_, functionParts[1])
        isStd == ~Contains(functionParts[1], Dot) /\ pos >= 0
        takesRepo == Len(functionParts) >= 3
        specRepo == IF takesRepo
                    THEN Join(SubSeq(functionParts, 1, 3), Slash)
                    ELSE <<>>
        restParts == IF takesRepo
                     THEN SubSeq(functionParts, 4, Len(functionParts))
                     ELSE functionParts
        startIndex == Len(pathParts) - Len(restParts) - 1
    IN  IF isStd THEN SourceSpec(<<>>, SliceFrom(path_, pos), <<>>)
        ELSE IF relPath0 # <<>> THEN SourceSpec(specRepo, relPath0, revision0)
        ELSE IF startIndex < 0 THEN Panic
        ELSE SourceSpec(specRepo,
                        Join(SubSeq(pathParts, startIndex + 1, Len(pathParts)), Slash),
                        revision0)

resolveImportPath(function_, path_) ==
    LET pathParts0 == Split(path_, Slash)
        hits == {i \in 1..Len(pathParts0) : AtPos(pathParts0[i]) >= 0}
    IN  IF hits = {}
        THEN ResolveFromFunction(function_, path_, pathParts0, <<>>, <<>>)
        ELSE
        LET idx == SetMin(hits)
            pos == AtPos(pathParts0[idx])
            specRevision == SliceFrom(pathParts0[idx], pos + 1)
            pathParts == [pathParts0 EXCEPT ![idx] = Slice(pathParts0[idx], 0, pos)]
            specRelativePath == Join(SubSeq(pathParts, idx + 1, Len(pathParts)), Slash)
        IN  IF IsRelative(path_)
            THEN SourceSpec(Join(SubSeq(pathParts, 1, idx), Slash),
                            specRelativePath, specRevision)
            ELSE ResolveFromFunction(function_, path_, pathParts,
                                     specRelativePath, specRevision)

\* SourceSpec.writeContent: which source tree the content is read from
writeContent(s, revision_) ==
    IF s.Repo = <<>>
    THEN [kind |-> "stdlib", repo |-> <<>>, rev |-> <<>>, path |-> s.RelativePath]
    ELSE [kind |-> "module", repo |-> s.Repo,
          rev |-> IF s.Revision # <<>> THEN s.Revision
                  ELSE IF revision_ # <<>> THEN revision_
                  ELSE Latest,
          path |-> s.RelativePath]

NoOut == [kind |-> "none", repo |-> <<>>, rev |-> <<>>, path |-> <<>>]

(***************************************************************************)
(* Inputs of the resolver program.                                         *)
(***************************************************************************)
SeqsOf(S, lo, hi) == UNION {[1..k -> S] : k \in lo..hi}

PathSegVocab ==
    { <<>>, <<"a">>, <<"a", "b">>, <<"a", "@", "v", "@", "w">> }

FuncPartVocab == { <<"a">>, <<"a", ".", "b">> }

Paths == {Join(segs, Slash) : segs \in SeqsOf(PathSegVocab, 1, MaxPathSegs)}

Functions == {Join(parts, Slash) : parts \in SeqsOf(FuncPartVocab, 0, MaxFuncParts)}

Revisions == { <<>>, <<"r">> }

\* the table of Test_resolveImportPath
TestCases ==
    {
      \* stdlib
      [ functionName |->
            <<"r", "u", "n", "t", "i", "m", "e", ".", "g", "o", "p", "a",
              "r", "k">>,
        sourcePath |->
            <<"/", "n", "i", "x", "/", "s", "t", "o", "r", "e", "/", "v",
              "6", "i", "0", "a", "6", "b", "f", "x", "3", "7", "0", "7",
              "a", "i", "r", "a", "w", "p", "c", "2", "5", "8", "9", "p",
              "b", "b", "l", "4", "6", "5", "r", "-", "g", "o", "-", "1",
              ".", "1", "9", ".", "5", "/", "s", "h", "a", "r", "e", "/",
              "g", "o", "/", "s", "r", "c", "/", "r", "u", "n", "t", "i",
              "m", "e", "/", "p", "r", "o", "c", ".", "g", "o">>,
        expRepo |->
            <<>>,
        expPath |->
            <<"r", "u", "n", "t", "i", "m", "e", "/", "p", "r", "o", "c",
              ".", "g", "o">>,
        expRevision |->
            <<>> ],
      \* stdlib-more-path-segments
      [ functionName |->
            <<"c", "o", "m", "p", "r", "e", "s", "s", "/", "g", "z", "i",
              "p", ".", "(", "*", "W", "r", "i", "t", "e", "r", ")", ".",
              "R", "e", "s", "e", "t">>,
        sourcePath |->
            <<"/", "o", "p", "t", "/", "h", "o", "s", "t", "e", "d", "t",
              "o", "o", "l", "c", "a", "c", "h", "e", "/", "g", "o", "/",
              "1", ".", "1", "9", ".", "6", "/", "x", "6", "4", "/", "s",
              "r", "c", "/", "c", "o", "m", "p", "r", "e", "s", "s", "/",
              "g", "z", "i", "p", "/", "g", "z", "i", "p", ".", "g", "o">>,
        expRepo |->
            <<>>,
        expPath |->
            <<"c", "o", "m", "p", "r", "e", "s", "s", "/", "g", "z", "i",
              "p", "/", "g", "z", "i", "p", ".", "g", "o">>,
        expRevision |->
            <<>> ],
      \* go-mod-abs-path
      [ functionName |->
            <<"g", "i", "t", "h", "u", "b", ".", "c", "o", "m", "/", "f",
              "e", "l", "i", "x", "g", "e", "/", "h", "t", "t", "p", "s",
              "n", "o", "o", "p", ".", "(", "*", "M", "e", "t", "r", "i",
              "c", "s", ")", ".", "C", "a", "p", "t", "u", "r", "e", "M",
              "e", "t", "r", "i", "c", "s">>,
        sourcePath |->
            <<"/", "h", "o", "m", "e", "/", "r", "u", "n", "n", "e", "r",
              "/", "g", "o", "/", "p", "k", "g", "/", "m", "o", "d", "/",
              "g", "i", "t", "h", "u", "b", ".", "c", "o", "m", "/", "f",
              "e", "l", "i", "x", "g", "e", "/", "h", "t", "t", "p", "s",
              "n", "o", "o", "p", "@", "v", "1", ".", "0", ".", "3", "/",
              "c", "a", "p", "t", "u", "r", "e", "_", "m", "e", "t", "r",
              "i", "c", "s", ".", "g", "o">>,
        expRepo |->
            <<"g", "i", "t", "h", "u", "b", ".", "c", "o", "m", "/", "f",
              "e", "l", "i", "x", "g", "e", "/", "h", "t", "t", "p", "s",
              "n", "o", "o", "p">>,
        expPath |->
            <<"c", "a", "p", "t", "u", "r", "e", "_", "m", "e", "t", "r",
              "i", "c", "s", ".", "g", "o">>,
        expRevision |->
            <<"v", "1", ".", "0", ".", "3">> ],
      \* go-mod-relative
      [ functionName |->
            <<"s", "i", "g", "s", ".", "k", "8", "s", ".", "i", "o", "/",
              "c", "o", "n", "t", "r", "o", "l", "l", "e", "r", "-", "r",
              "u", "n", "t", "i", "m", "e", "/", "p", "k", "g", "/", "i",
              "n", "t", "e", "r", "n", "a", "l", "/", "c", "o", "n", "t",
              "r", "o", "l", "l", "e", "r", ".", "(", "*", "C", "o", "n",
              "t", "r", "o", "l", "l", "e", "r", ")", ".", "p", "r", "o",
              "c", "e", "s", "s", "N", "e", "x", "t", "W", "o", "r", "k",
              "I", "t", "e", "m">>,
        sourcePath |->
            <<"s", "i", "g", "s", ".", "k", "8", "s", ".", "i", "o", "/",
              "c", "o", "n", "t", "r", "o", "l", "l", "e", "r", "-", "r",
              "u", "n", "t", "i", "m", "e", "@", "v", "0", ".", "1", "3",
              ".", "1", "/", "p", "k", "g", "/", "i", "n", "t", "e", "r",
              "n", "a", "l", "/", "c", "o", "n", "t", "r", "o", "l", "l",
              "e", "r", "/", "c", "o", "n", "t", "r", "o", "l", "l", "e",
              "r", ".", "g", "o">>,
        expRepo |->
            <<"s", "i", "g", "s", ".", "k", "8", "s", ".", "i", "o", "/",
              "c", "o", "n", "t", "r", "o", "l", "l", "e", "r", "-", "r",
              "u", "n", "t", "i", "m", "e">>,
        expPath |->
            <<"p", "k", "g", "/", "i", "n", "t", "e", "r", "n", "a", "l",
              "/", "c", "o", "n", "t", "r", "o", "l", "l", "e", "r", "/",
              "c", "o", "n", "t", "r", "o", "l", "l", "e", "r", ".", "g",
              "o">>,
        expRevision |->
            <<"v", "0", ".", "1", "3", ".", "1">> ],
      \* go-mod-relative-no-revision
      [ functionName |->
            <<>>,
        sourcePath |->
            <<"g", "i", "t", "h", "u", "b", ".", "c", "o", "m", "/", "a",
              "w", "s", "/", "a", "w", "s", "-", "s", "d", "k", "-", "g",
              "o", "@", "v", "1", ".", "4", "4", ".", "1", "6", "3", "/",
              "a", "w", "s", "/", "e", "n", "d", "p", "o", "i", "n", "t",
              "s", "/", "d", "e", "f", "a", "u", "l", "t", "s", ".", "g",
              "o">>,
        expRepo |->
            <<"g", "i", "t", "h", "u", "b", ".", "c", "o", "m", "/", "a",
              "w", "s", "/", "a", "w", "s", "-", "s", "d", "k", "-", "g",
              "o">>,
        expPath |->
            <<"a", "w", "s", "/", "e", "n", "d", "p", "o", "i", "n", "t",
              "s", "/", "d", "e", "f", "a", "u", "l", "t", "s", ".", "g",
              "o">>,
        expRevision |->
            <<"v", "1", ".", "4", "4", ".", "1", "6", "3">> ],
      \* go-main
      [ functionName |->
            <<"g", "i", "t", "h", "u", "b", ".", "c", "o", "m", "/", "g",
              "r", "a", "f", "a", "n", "a", "/", "p", "h", "l", "a", "r",
              "e", "/", "p", "k", "g", "/", "p", "h", "l", "a", "r", "e",
              "d", "b", ".", "(", "*", "p", "r", "o", "f", "i", "l", "e",
              "S", "t", "o", "r", "e", ")", ".", "c", "u", "t", "R", "o",
              "w", "G", "r", "o", "u", "p">>,
        sourcePath |->
            <<"/", "h", "o", "m", "e", "/", "r", "u", "n", "n", "e", "r",
              "/", "w", "o", "r", "k", "/", "p", "h", "l", "a", "r", "e",
              "/", "p", "h", "l", "a", "r", "e", "/", "p", "k", "g", "/",
              "p", "h", "l", "a", "r", "e", "d", "b", "/", "p", "r", "o",
              "f", "i", "l", "e", "_", "s", "t", "o", "r", "e", ".", "g",
              "o">>,
        expRepo |->
            <<"g", "i", "t", "h", "u", "b", ".", "c", "o", "m", "/", "g",
              "r", "a", "f", "a", "n", "a", "/", "p", "h", "l", "a", "r",
              "e">>,
        expPath |->
            <<"p", "k", "g", "/", "p", "h", "l", "a", "r", "e", "d", "b",
              "/", "p", "r", "o", "f", "i", "l", "e", "_", "s", "t", "o",
              "r", "e", ".", "g", "o">>,
        expRevision |->
            <<>> ]
    }

(***************************************************************************)
(* The resolver program: handleSourceGo and the unit test's driver.        *)
(* One request (or one test row) is followed from its start to its end;    *)
(* concurrent requests share no state of the program.                      *)
(***************************************************************************)
\* handleSourceGo lines 242-264: the query is read, resolveImportPath is
\* called; on success the handler enters spec.writeContent, whose source
\* tree and revision are fixed by the spec (out)
HandleSourceGo(f, r, p) ==
    /\ pc = "idle"
    /\ function' = f
    /\ path' = p
    /\ IF p = <<>>
       THEN /\ pc' = "badRequest"
            /\ revision' = r
            /\ UNCHANGED <<spec, out>>
       ELSE /\ revision' = IF r = <<>> THEN Latest ELSE r
            /\ spec' = resolveImportPath(f, p)
            /\ out' = IF spec'.status = "ok"
                      THEN writeContent(spec', revision')
                      ELSE NoOut
            /\ pc' = CASE spec'.status = "ok" -> "writeContent"
                      [] spec'.status = "error" -> "resolveError"
                      [] OTHER -> "panic"
    /\ UNCHANGED lvars

\* handleSourceGo lines 266-270: writeContent (the external "go" command,
\* the file open and the copy) returns; ok = it returned no error
WriteContentDone(ok) ==
    /\ pc = "writeContent"
    /\ pc' = IF ok THEN "written" ELSE "retrieveError"
    /\ UNCHANGED <<function, revision, path, spec, out>>
    /\ UNCHANGED lvars

\* one row of Test_resolveImportPath, lines 70-78: resolveImportPath is
\* called and writeContent is entered with revision ""; the asserts do
\* not stop the test, so a nil spec is dereferenced at line 73
Test_resolveImportPath(tc) ==
    /\ pc = "idle"
    /\ function' = tc.functionName
    /\ path' = tc.sourcePath
    /\ revision' = <<>>
    /\ spec' = resolveImportPath(tc.functionName, tc.sourcePath)
    /\ out' = IF spec'.status = "ok" THEN writeContent(spec', <<>>) ELSE NoOut
    /\ pc' = IF spec'.status = "ok" THEN "testWriteContent" ELSE "panic"
    /\ UNCHANGED lvars

\* the expectations of the row under test hold of the resolved spec
RowAsserts ==
    \E tc \in TestCases :
        /\ tc.functionName = function
        /\ tc.sourcePath = path
        /\ spec = SourceSpec(tc.expRepo, tc.expPath, tc.expRevision)

\* Test_resolveImportPath lines 73-80: writeContent returns and the row
\* passes if no assert has failed
TestWriteContentDone(ok) ==
    /\ pc = "testWriteContent"
    /\ pc' = IF ok /\ RowAsserts THEN "testPassed" ELSE "testFailed"
    /\ UNCHANGED <<function, revision, path, spec, out>>
    /\ UNCHANGED lvars

\* the handler has returned (or net/http has recovered its panic), or the
\* test row is over
Return ==
    /\ pc \notin {"idle", "writeContent", "testWriteContent"}
    /\ pc' = "idle"
    /\ function' = <<>>
    /\ revision' = <<>>
    /\ path' = <<>>
    /\ spec' = NoSpec
    /\ out' = NoOut
    /\ UNCHANGED lvars

RInit ==
    /\ pc = "idle"
    /\ function = <<>>
    /\ revision = <<>>
    /\ path = <<>>
    /\ spec = NoSpec
    /\ out = NoOut

LInit ==
    /\ lpc = "idle"
    /\ repo = <<>>
    /\ rev = <<>>
    /\ sourcePath = <<>>
    /\ files = {}
    /\ visited = {}
    /\ foundFile = <<>>
    /\ ctxDone = FALSE
    /\ result = "none"

Init == RInit /\ LInit

Next ==
    \/ /\ pc = "idle"
       /\ \E f \in Functions, r \in Revisions, p \in Paths :
              HandleSourceGo(f, r, p)
    \/ \E ok \in BOOLEAN : WriteContentDone(ok)
    \/ /\ pc = "idle"
       /\ \E tc \in TestCases : Test_resolveImportPath(tc)
    \/ \E ok \in BOOLEAN : TestWriteContentDone(ok)
    \/ Return

Spec == Init /\ [][Next]_vars

(***************************************************************************)
(* The file locator program: handleSourceGo and writeSourceGo of main.go.  *)
(***************************************************************************)
pkgModPath == <<"/", "p", "k", "g", "/", "m", "o", "d", "/">>

\* goModInfo.Dir, the directory "go mod download" reports
ModDir == <<"/", "d">>

\* the path WalkDir hands to its callback for a file below goModInfo.Dir
FullPath(rel) == ModDir \o Slash \o rel

\* relPath := path[prefixLen+1:]
RelPath(full) == SliceFrom(full, Len(ModDir) + 1)

\* the candidate test of the walk callback
IsCandidate(sourcePath_, relPath) == HasSuffix(sourcePath_, relPath)

\* whether the callback replaces foundFile by a candidate relPath
Replaces(foundFile_, relPath) == Len(foundFile_) < Len(relPath)

\* the head of writeSourceGo: a source path below "/pkg/mod/" restarts
\* writeSourceGo with the module, revision and path cut out of it
DependencyRewrite(sourcePath_) ==
    LET i == Index(sourcePath_, pkgModPath)
        depPath == SliceFrom(sourcePath_, Len(pkgModPath) + i)
        posAt == Index(depPath, At)
        posEnd == posAt + Index(SliceFrom(depPath, posAt), Slash)
        none == [kind |-> "none", module |-> <<>>, revision |-> <<>>, path |-> <<>>]
    IN  IF i <= 0 THEN none
        ELSE IF posAt <= 0 THEN none
        ELSE IF posEnd <= 0 THEN none
        ELSE IF posAt + 1 > posEnd
             THEN [kind |-> "panic", module |-> <<>>, revision |-> <<>>, path |-> <<>>]
        ELSE [kind |-> "recurse",
              module |-> Slice(depPath, 0, posAt),
              revision |-> Slice(depPath, posAt + 1, posEnd),
              path |-> SliceFrom(depPath, posEnd)]

\* root-relative paths of the files a module directory may hold
FileVocab ==
    { <<"a", "b", "c">>, <<"b", "c">>, <<"c">>,
      <<"x", "/", "a", "b", "c">>, <<"x", "/", "b", "c">> }

FileSets == {S \in SUBSET FileVocab : Cardinality(S) <= MaxFiles}

SourcePaths ==
    { <<"a", "b", "c">>,
      <<"/", "x", "/", "a", "b", "c">>,
      <<"/", "y", "/", "x", "/", "b", "c">>,
      <<"/", "y", "x", "/", "a", "b", "c">>,
      <<"/", "y", "/", "z">>,
      <<"/", "h", "/", "p", "k", "g", "/", "m", "o", "d", "/", "m", "@", "v", "/", "x", "/", "a", "b", "c">>,
      <<"/", "h", "/", "p", "k", "g", "/", "m", "o", "d", "/", "m", "m", "@", "v">> }

Repos == { <<>>, <<"r">> }

\* handleSourceGo (main.go) up to the call of writeSourceGo
handleSourceGoMain(repo_, revision_, path_) ==
    /\ lpc = "idle"
    /\ repo' = repo_
    /\ sourcePath' = path_
    /\ IF repo_ = <<>> \/ path_ = <<>>
       THEN /\ rev' = revision_
            /\ lpc' = "done"
            /\ result' = "badRequest"
       ELSE /\ rev' = IF revision_ = <<>> THEN Latest ELSE revision_
            /\ lpc' = "entry"
            /\ result' = "none"
    /\ UNCHANGED <<files, visited, foundFile, ctxDone>>
    /\ UNCHANGED rvars

\* writeSourceGo lines 87-106
writeSourceGoEntry ==
    /\ lpc = "entry"
    /\ LET d == DependencyRewrite(sourcePath)
       IN  CASE d.kind = "recurse" ->
                    /\ repo' = d.module
                    /\ rev' = d.revision
                    /\ sourcePath' = d.path
                    /\ UNCHANGED <<lpc, result>>
             [] d.kind = "panic" ->
                    /\ lpc' = "done"
                    /\ result' = "panic"
                    /\ UNCHANGED <<repo, rev, sourcePath>>
             [] OTHER ->
                    /\ lpc' = "download"
                    /\ UNCHANGED <<repo, rev, sourcePath, result>>
    /\ UNCHANGED <<files, visited, foundFile, ctxDone>>
    /\ UNCHANGED rvars

\* writeSourceGo lines 108-149: "go mod download" fails, or leaves a
\* directory holding the files fs
GoModDownload(ok, fs) ==
    /\ lpc = "download"
    /\ IF ok
       THEN /\ files' = {FullPath(rel) : rel \in fs}
            /\ lpc' = "walk"
            /\ UNCHANGED result
       ELSE /\ lpc' = "done"
            /\ result' = "downloadError"
            /\ UNCHANGED files
    /\ UNCHANGED <<repo, rev, sourcePath, visited, foundFile, ctxDone>>
    /\ UNCHANGED rvars

\* the WalkDir callback for one regular file (for a directory it returns
\* at once and changes nothing)
WalkDirFunc(f) ==
    /\ lpc = "walk"
    /\ f \in files \ visited
    /\ visited' = visited \cup {f}
    /\ foundFile' = IF /\ IsCandidate(sourcePath, RelPath(f))
                       /\ Replaces(foundFile, RelPath(f))
                    THEN RelPath(f)
                    ELSE foundFile
    /\ UNCHANGED <<lpc, repo, rev, sourcePath, files, ctxDone, result>>
    /\ UNCHANGED rvars

\* writeSourceGo lines 165-183 and the handler's reply: the walk is over
WalkDirDone(copied) ==
    /\ lpc = "walk"
    /\ visited = files
    /\ lpc' = "done"
    /\ result' = IF foundFile = <<>> THEN "notFound"
                 ELSE IF copied THEN "written"
                 ELSE "copyError"
    /\ UNCHANGED <<repo, rev, sourcePath, files, visited, foundFile, ctxDone>>
    /\ UNCHANGED rvars

\* the client goes away while writeSourceGo runs: req.Context() is done
Cancel ==
    /\ lpc \in {"entry", "download", "walk"}
    /\ ~ctxDone
    /\ ctxDone' = TRUE
    /\ UNCHANGED <<lpc, repo, rev, sourcePath, files, visited, foundFile, result>>
    /\ UNCHANGED rvars

ReturnMain ==
    /\ lpc = "done"
    /\ lpc' = "idle"
    /\ repo' = <<>>
    /\ rev' = <<>>
    /\ sourcePath' = <<>>
    /\ files' = {}
    /\ visited' = {}
    /\ foundFile' = <<>>
    /\ ctxDone' = FALSE
    /\ result' = "none"
    /\ UNCHANGED rvars

NextLocate ==
    \/ /\ lpc = "idle"
       /\ \E repo_ \in Repos, revision_ \in Revisions, path_ \in SourcePaths \cup {<<>>} :
              handleSourceGoMain(repo_, revision_, path_)
    \/ writeSourceGoEntry
    \/ /\ lpc = "download"
       /\ \E ok \in BOOLEAN, fs \in FileSets : GoModDownload(ok, fs)
    \/ \E f \in files : WalkDirFunc(f)
    \/ \E copied \in BOOLEAN : WalkDirDone(copied)
    \/ Cancel
    \/ ReturnMain

SpecLocate == Init /\ [][NextLocate]_vars

(***************************************************************************)
(* Vocabulary of the claims about resolve, stated on path segments.        *)
(***************************************************************************)
\* resolveImportPath has been called in the current state
Resolved == spec.status # "none"

Segments(p) == Split(p, Slash)

HasAt(seg) == \E k \in 1..Len(seg) : seg[k] = "@"

HasAtSegment(p) == \E i \in 1..Len(Segments(p)) : HasAt(Segments(p)[i])

FirstAtSegment(p) ==
    LET segs == Segments(p)
    IN  CHOOSE i \in 1..Len(segs) :
            /\ HasAt(segs[i])
            /\ \A j \in 1..(i - 1) : ~HasAt(segs[j])

LastAt(seg) ==
    CHOOSE k \in 1..Len(seg) :
        /\ seg[k] = "@"
        /\ \A m \in (k + 1)..Len(seg) : seg[m] # "@"

\* the text after, and before, the last "@" of the first "@" segment
MarkerRevision(p) ==
    LET seg == Segments(p)[FirstAtSegment(p)]
    IN  SubSeq(seg, LastAt(seg) + 1, Len(seg))

MarkerModule(p) ==
    LET seg == Segments(p)[FirstAtSegment(p)]
    IN  SubSeq(seg, 1, LastAt(seg) - 1)

\* the join of the segments after the first "@" segment
AfterMarker(p) ==
    LET segs == Segments(p)
    IN  Join(SubSeq(segs, FirstAtSegment(p) + 1, Len(segs)), Slash)

\* the join of the segments up to the first "@" segment, that one truncated
UpToMarker(p) ==
    Join(SubSeq(Segments(p), 1, FirstAtSegment(p) - 1) \o <<MarkerModule(p)>>, Slash)

DirectForm(p) == ~HasPrefix(p, Slash) /\ HasAtSegment(p)

\* the qualifier parts of a symbol: its "/" parts, the last one cut at its
\* first "."
Qualifiers(f) ==
    LET parts == Split(f, Slash)
        last == parts[Len(parts)]
        dots == {k \in 1..Len(last) : last[k] = "."}
    IN  IF dots = {} THEN parts
        ELSE SubSeq(parts, 1, Len(parts) - 1)
                 \o <<SubSeq(last, 1, SetMin(dots) - 1)>>

HasDot(q) == \E k \in 1..Len(q) : q[k] = "."

Hosted(f) == f # <<>> /\ HasDot(Qualifiers(f)[1])

StdSymbol(f) == f # <<>> /\ ~HasDot(Qualifiers(f)[1])

\* the last n segments of p joined (all of them if p has fewer)
TrailingSegments(p, n) ==
    LET segs == Segments(p)
        from == IF Len(segs) > n THEN Len(segs) - n + 1 ELSE 1
    IN  Join(SubSeq(segs, from, Len(segs)), Slash)

\* the indexes of the segments of p equal to q
SegmentsEqual(p, q) == {i \in 1..Len(Segments(p)) : Segments(p)[i] = q}

\* the part of p that starts at its last segment equal to q
FromLastSegment(p, q) ==
    Join(SubSeq(Segments(p), SetMax(SegmentsEqual(p, q)), Len(Segments(p))), Slash)

(***************************************************************************)
(* Claims about resolve.                                                   *)
(***************************************************************************)
\* C1: for a raw path in direct form (no leading "/", some segment with
\* "@") resolve succeeds for every symbol, the empty one included, with
\* Repository = the segments up to the first "@" segment (truncated before
\* its last "@"), Revision = the text after that last "@", RelativePath =
\* the segments after it; the result does not depend on the symbol.
C1_DirectForm ==
    (Resolved /\ DirectForm(path)) =>
        spec = SourceSpec(UpToMarker(path), AfterMarker(path), MarkerRevision(path))

C1_Witness ==
    /\ Resolved
    /\ DirectForm(path)
    /\ function # <<>>
    /\ spec.status = "ok"
    /\ spec.Revision = <<"w">>
    /\ spec.RelativePath # <<>>

\* C2: for every non-empty symbol and every raw path resolve returns a
\* SourceLocation: it neither fails nor indexes out of range.
C2_TotalForSymbol ==
    (Resolved /\ function # <<>>) => spec.status = "ok"

\* C3: for a symbol whose first qualifier part has no "." resolve returns
\* Repository = "" and Revision = "" and RelativePath = the raw path from
\* its last segment equal to that part (a whole segment). Stated for the
\* raw paths where that segment exists and that are not in direct form.
C3_StandardLibrary ==
    (/\ Resolved
     /\ StdSymbol(function)
     /\ ~DirectForm(path)
     /\ SegmentsEqual(path, Qualifiers(function)[1]) # {}) =>
        spec = SourceSpec(<<>>, FromLastSegment(path, Qualifiers(function)[1]), <<>>)

\* C4: whenever resolve returns a SourceLocation with an empty Repository
\* the symbol's first qualifier part has no "."; a hosted symbol is never
\* served from the standard-library root.
C4_EmptyRepositoryOnlyStd ==
    /\ (spec.status = "ok" /\ spec.Repo = <<>>) => ~Hosted(function)
    /\ (out.kind = "stdlib") => ~Hosted(function)

\* C5: for a raw path that has no "@" segment or begins with "/", resolve
\* with an empty symbol fails and returns no SourceLocation.
C5_EmptySymbolFails ==
    (Resolved /\ function = <<>> /\ (~HasAtSegment(path) \/ HasPrefix(path, Slash))) =>
        (spec = ResolveError /\ pc = "resolveError" /\ out = NoOut)

C5_Witness ==
    /\ Resolved
    /\ function = <<>>
    /\ HasPrefix(path, Slash)
    /\ HasAtSegment(path)
    /\ spec.status = "error"

\* C6: for a hosted symbol with k >= 3 qualifier parts and a raw path with
\* no "@" segment resolve returns Repository = the first 3 qualifier parts,
\* Revision = "" and RelativePath = the trailing (k - 3) + 1 segments.
C6_HostedNoMarker ==
    (/\ Resolved
     /\ Hosted(function)
     /\ Len(Qualifiers(function)) >= 3
     /\ ~HasAtSegment(path)) =>
        spec = SourceSpec(Join(SubSeq(Qualifiers(function), 1, 3), Slash),
                          TrailingSegments(path, Len(Qualifiers(function)) - 3 + 1),
                          <<>>)

\* C7: for a raw path that begins with "/" and has an "@" segment, and a
\* hosted symbol with at least 3 qualifier parts, resolve returns Revision =
\* the text after the last "@" of the first such segment, RelativePath = the
\* segments after that segment, Repository = the first 3 qualifier parts.
C7_AbsoluteCachePath ==
    (/\ Resolved
     /\ HasPrefix(path, Slash)
     /\ HasAtSegment(path)
     /\ Hosted(function)
     /\ Len(Qualifiers(function)) >= 3) =>
        spec = SourceSpec(Join(SubSeq(Qualifiers(function), 1, 3), Slash),
                          AfterMarker(path),
                          MarkerRevision(path))

(***************************************************************************)
(* Claims about the file locator.                                          *)
(***************************************************************************)
\* root-relative paths of the files below the module directory
RelFiles(fs) == {SubSeq(f, Len(ModDir) + 2, Len(f)) : f \in fs}

\* recorded ends with rel
EndsWith(recorded, rel) ==
    \E n \in 0..Len(recorded) : recorded = SubSeq(recorded, 1, n) \o rel

\* recorded ends with rel and the match starts the string or follows a "/"
SegmentAligned(recorded, rel) ==
    /\ EndsWith(recorded, rel)
    /\ Len(rel) < Len(recorded) => recorded[Len(recorded) - Len(rel)] = "/"

\* the files of fs that match the recorded path: segment-aligned suffixes
Matches(fs, recorded) == {r \in RelFiles(fs) : SegmentAligned(recorded, r)}

Longest(S) ==
    IF S = {} THEN <<>> ELSE CHOOSE c \in S : \A d \in S : Len(d) <= Len(c)

\* the walk has run to its end
Walked == lpc = "done" /\ result \in {"notFound", "written", "copyError"}

\* C8: a file is a candidate only if the recorded path ends with its
\* root-relative path on a segment boundary; when no file is, locate fails
\* with NotFoundError.
C8_SegmentBoundary ==
    /\ foundFile # <<>> => SegmentAligned(sourcePath, foundFile)
    /\ (Walked /\ \A r \in RelFiles(files) : ~SegmentAligned(sourcePath, r)) =>
           result = "notFound"

\* C9: when the request context is cancelled while the download or the walk
\* is in progress, the operation returns an error and writes no file bytes.
C9_Cancellation ==
    (lpc = "done" /\ ctxDone) => result \notin {"written", "none"}

\* C10: for every set of files and every order of the walk, locate returns
\* the matching file (a segment-aligned suffix of the recorded path) with
\* the longest root-relative path, or fails when no file matches; two
\* distinct matching files never have the same length, so the result is
\* the same for every order of the walk.
C10_LongestMatch ==
    /\ \A c, d \in Matches(files, sourcePath) : Len(c) = Len(d) => c = d
    /\ Walked =>
           /\ visited = files
           /\ foundFile = Longest(Matches(files, sourcePath))
           /\ (result = "notFound") = (Matches(files, sourcePath) = {})

====
